---- MODULE Spec2Model ----
(***************************************************************************)
(* Model of builder/src/lib.rs: the `Builder` derive macro.                *)
(*                                                                         *)
(* Two things are modelled.  `derive` is the macro expansion: a pure       *)
(* function from a parsed DeriveInput to either compile errors, a panic,   *)
(* or the generated builder (its struct fields, its `builder()` body, its  *)
(* setter methods and its `build` body).  The generated code is then       *)
(* executed: a builder value is a map from field name to Option storage,   *)
(* setters and `build` act on it exactly as the quoted code does.          *)
(*                                                                         *)
(* Rust's Option<T> is a sequence of length at most one: None is <<>>,     *)
(* Some(x) is <<x>>.  A Vec is a sequence.                                 *)
(***************************************************************************)
EXTENDS Integers, Sequences, FiniteSets, TLC

VARIABLES
    input,      \* the DeriveInput handed to the macro
    out,        \* what the macro returned: Pending before it ran
    storage,    \* the builder value: field name -> Option
    trace       \* the calls made on the builder since `builder()`, with what each returned

vars == <<input, out, storage, trace>>

(***************************************************************************)
(* Bounds.                                                                 *)
(***************************************************************************)
MaxFields == 2      \* fields of the struct
MaxCalls == 3       \* method calls on one builder
MaxVal == 2         \* distinct element values

None == <<>>
Some(x) == <<x>>

(***************************************************************************)
(* syn's view of a type: Type::Path with its segments (ident + arguments), *)
(* or another variant (here Type::Reference, e.g. &'static str).           *)
(***************************************************************************)
NoArguments == [kind |-> "None", args |-> <<>>]
AngleBracketed(a) == [kind |-> "AngleBracketed", args |-> a]
Segment(id, arguments) == [ident |-> id, arguments |-> arguments]
TypePath(segs) == [kind |-> "Path", segments |-> segs]
TypeReference == [kind |-> "Reference", segments |-> <<>>]
GenericType(t) == [kind |-> "Type", ty |-> t]
IdentType(id) == TypePath(<<Segment(id, NoArguments)>>)

TString == IdentType("String")
TOption(t) == TypePath(<<Segment("Option", AngleBracketed(<<GenericType(t)>>))>>)
TVec(t) == TypePath(<<Segment("Vec", AngleBracketed(<<GenericType(t)>>))>>)
\* `Option` written without generic arguments
TBareOption == IdentType("Option")
\* `Vec` written without generic arguments
TBareVec == IdentType("Vec")
\* std::option::Option<String>
TQualifiedOption ==
    TypePath(<<Segment("std", NoArguments), Segment("option", NoArguments),
               Segment("Option", AngleBracketed(<<GenericType(TString)>>))>>)
\* ::std::option::Option<#ty>, as the macro writes it
StdOption(t) ==
    TypePath(<<Segment("", NoArguments), Segment("std", NoArguments),
               Segment("option", NoArguments),
               Segment("Option", AngleBracketed(<<GenericType(t)>>))>>)

(***************************************************************************)
(* Helpers on types.                                                       *)
(***************************************************************************)
get_ident_from_type(ty) ==
    IF ty.kind = "Path" /\ Len(ty.segments) > 0
    THEN Some(ty.segments[1].ident)
    ELSE None

is_a(to_match_on, ty) ==
    LET ident == get_ident_from_type(ty)
    IN  IF ident # None THEN ident[1] = to_match_on ELSE FALSE

\* The result is [panic, val]: the unwraps inside can panic; val is the Option returned.
Returned(v) == [panic |-> FALSE, val |-> v]
Panicked == [panic |-> TRUE, val |-> None]

get_in_angle_bracket(ty) ==
    IF ty.kind = "Path"
    THEN IF Len(ty.segments) = 0 THEN Panicked
         ELSE LET arguments == ty.segments[1].arguments
              IN  IF arguments.kind = "AngleBracketed"
                  THEN IF Len(arguments.args) = 0 THEN Panicked
                       ELSE LET args == arguments.args[1]
                            IN  IF args.kind = "Type"
                                THEN LET ident == get_ident_from_type(args.ty)
                                     IN  IF ident = None THEN Panicked
                                         ELSE Returned(Some(ident[1]))
                                ELSE Returned(None)
                  ELSE Returned(None)
    ELSE Returned(None)

(***************************************************************************)
(* Attributes.  An attribute is a syn::Meta: a List `path(tokens)`, or     *)
(* (a doc comment) a NameValue.  The tokens of a list are what             *)
(* BuilderAttr::parse reads: an ident, `=`, and a value that is a string   *)
(* literal or something else.  span is the attribute's place in the source.*)
(***************************************************************************)
Tokens(key, value_kind, value) == [key |-> key, value_kind |-> value_kind, value |-> value]
MetaList(path, tokens, span) ==
    [meta |-> "List", path |-> path, tokens |-> tokens, span |-> span]
MetaNameValue(path, span) ==
    [meta |-> "NameValue", path |-> path, tokens |-> Tokens("", "None", ""), span |-> span]

\* the message of both syn::Error::new_spanned calls (its backquotes left out)
ExpectedMsg == "expected builder(each = \"...\")"

\* BuilderAttr::parse: Ok(key, value) or Err
parse(tokens) ==
    IF tokens.value_kind = "LitStr"
    THEN [ok |-> TRUE, key |-> tokens.key, value |-> tokens.value]
    ELSE [ok |-> FALSE, key |-> "", value |-> ""]

EachSuccess(s) == [kind |-> "Success", value |-> s, error |-> <<>>]
EachNone == [kind |-> "None", value |-> "", error |-> <<>>]
EachError(meta_list) ==
    [kind |-> "Error", value |-> "",
     error |-> <<[message |-> ExpectedMsg, span |-> meta_list.span]>>]

find_each_attr(attribute) ==
    IF Len(attribute) > 0
    THEN LET attr == attribute[1]
         IN  IF attr.meta = "List" /\ attr.path = "builder"
             THEN LET parsed == parse(attr.tokens)
                  IN  IF parsed.ok
                      THEN IF parsed.key # "each" THEN EachError(attr)
                           ELSE EachSuccess(parsed.value)
                      ELSE EachError(attr)
             ELSE EachNone
    ELSE EachNone

(***************************************************************************)
(* derive: the macro.  A field is [ident, ty, attrs]; the input is         *)
(* [ident, data, fields] where data says which syn::Data / syn::Fields     *)
(* variant was parsed.                                                     *)
(***************************************************************************)
Field(ident, ty, attrs) == [ident |-> ident, ty |-> ty, attrs |-> attrs]
DeriveInput(ident, data, fields) == [ident |-> ident, data |-> data, fields |-> fields]

\* the first loop: the errors of the Vec fields, in field order
RECURSIVE error_tokens(_)
error_tokens(fields) ==
    IF fields = <<>> THEN <<>>
    ELSE LET field == Head(fields)
             found == find_each_attr(field.attrs)
         IN  (IF is_a("Vec", field.ty) /\ found.kind = "Error" THEN found.error ELSE <<>>)
             \o error_tokens(Tail(fields))

\* #name: #ty   or   #name: ::std::option::Option<#ty>
builder_fields(field) ==
    [name |-> field.ident,
     ty |-> IF is_a("Option", field.ty) THEN field.ty ELSE StdOption(field.ty)]

\* pub fn name(&mut self, name: arg_ty) -> &mut Self, whose body either stores
\* Some(arg) in self.field or pushes arg onto self.field
Method(name, arg_ty, body, field) ==
    [name |-> name, arg_ty |-> arg_ty, body |-> body, field |-> field]
Quoted(method) == [panic |-> FALSE, method |-> method]
Unwrapped == [panic |-> TRUE, method |-> Method("", TypeReference, "", "")]

\* builder_setters without the `&& is_vec` of line 183
builder_setters_any_type(field) ==
    LET name == field.ident
        ty == field.ty
    IN  IF is_a("Option", ty)
        THEN LET inner_ty == get_in_angle_bracket(ty)
             IN  IF inner_ty.panic \/ inner_ty.val = None THEN Unwrapped
                 ELSE Quoted(Method(name, IdentType(inner_ty.val[1]), "assign", name))
        ELSE LET found == find_each_attr(field.attrs)
             IN  IF found.kind = "Success"
                 THEN Quoted(Method(found.value, ty, "push", name))
                 ELSE Quoted(Method(name, ty, "assign", name))

builder_setters(field) ==
    LET name == field.ident
        ty == field.ty
        is_option == is_a("Option", ty)
    IN  IF is_option
        THEN LET inner_ty == get_in_angle_bracket(ty)
             IN  IF inner_ty.panic \/ inner_ty.val = None THEN Unwrapped
                 ELSE Quoted(Method(name, IdentType(inner_ty.val[1]), "assign", name))
        ELSE LET found == find_each_attr(field.attrs)
                 each_attr == IF found.kind = "Success" THEN Some(found.value) ELSE None
                 is_vec == is_a("Vec", ty)
             IN  IF each_attr # None /\ is_vec
                 THEN LET inside_vec_value == get_in_angle_bracket(ty)
                      IN  IF inside_vec_value.panic \/ inside_vec_value.val = None
                          THEN Unwrapped
                          ELSE Quoted(Method(each_attr[1], IdentType(inside_vec_value.val[1]),
                                             "push", name))
                 ELSE Quoted(Method(name, ty, "assign", name))

\* #name: None
builder_body(field) == [name |-> field.ident, value |-> None]

\* #name: self.#name.clone() / .take().unwrap_or_default() / .take().ok_or_else(..)?
build_body(field) ==
    LET is_option == is_a("Option", field.ty)
        is_vec == is_a("Vec", field.ty)
    IN  [name |-> field.ident,
         name_str |-> field.ident,
         expr |-> IF is_option THEN "clone"
                  ELSE IF is_vec THEN "take_unwrap_or_default"
                  ELSE "take_ok_or_else"]

NoBuilder ==
    [struct_ident |-> "", builder_ident |-> <<>>, fields |-> <<>>, body |-> <<>>,
     setters |-> <<>>, build |-> <<>>]
Pending == [kind |-> "Pending", errors |-> <<>>, builder |-> NoBuilder]
Panic == [kind |-> "Panic", errors |-> <<>>, builder |-> NoBuilder]
CompileErrors(e) == [kind |-> "Errors", errors |-> e, builder |-> NoBuilder]
TokenStream(b) == [kind |-> "Tokens", errors |-> <<>>, builder |-> b]

derive(inp) ==
    IF inp.data # "StructNamed" THEN Panic
    ELSE LET fields == inp.fields
             errors == error_tokens(fields)
         IN  IF errors # <<>> THEN CompileErrors(errors)
             ELSE IF \E i \in 1..Len(fields) : builder_setters(fields[i]).panic THEN Panic
             ELSE TokenStream(
                    [struct_ident |-> inp.ident,
                     builder_ident |-> <<inp.ident, "Builder">>,
                     fields |-> [i \in 1..Len(fields) |-> builder_fields(fields[i])],
                     body |-> [i \in 1..Len(fields) |-> builder_body(fields[i])],
                     setters |-> [i \in 1..Len(fields) |-> builder_setters(fields[i]).method],
                     build |-> [i \in 1..Len(fields) |-> build_body(fields[i])]])

(***************************************************************************)
(* The generated code.                                                     *)
(***************************************************************************)
\* pub fn builder() -> Builder { Builder { #(#builder_body,)* } }
builder(b) ==
    [n \in {b.body[i].name : i \in 1..Len(b.body)} |->
        b.body[CHOOSE i \in 1..Len(b.body) : b.body[i].name = n].value]

\* a setter that keeps a value already stored
assign_first_wins(self, method, arg) ==
    IF self[method.field] = None THEN [self EXCEPT ![method.field] = Some(arg)] ELSE self

\* self.#name = Some(#name); self
assign(self, method, arg) == [self EXCEPT ![method.field] = Some(arg)]

\* self.#name.get_or_insert_with(Vec::new).push(#each_ident); self
push(self, method, arg) ==
    LET vec == IF self[method.field] = None THEN <<>> ELSE self[method.field][1]
    IN  [self EXCEPT ![method.field] = Some(Append(vec, arg))]

setter(self, method, arg) ==
    IF method.body = "push" THEN push(self, method, arg) ELSE assign(self, method, arg)

Ok(record) == [kind |-> "Ok", value |-> record]
Err(e) == [kind |-> "Err", value |-> e]
\* format!("Field '{}' is not set", #name_str)
NotSet(name_str) == <<"Field '", name_str, "' is not set">>

\* One field initialiser of the struct expression in build.  [self, done, value]:
\* the builder afterwards, whether the ? returned early (then value is the error).
\* an Option field moved out of the builder instead of cloned
clone_taken(self, e) ==
    [self |-> [self EXCEPT ![e.name] = None], done |-> FALSE, value |-> self[e.name]]

clone(self, e) == [self |-> self, done |-> FALSE, value |-> self[e.name]]

\* a Vec field required like a Plain one
take_unwrap_or_default_required(self, e) ==
    IF self[e.name] = None
    THEN [self |-> self, done |-> TRUE, value |-> NotSet(e.name_str)]
    ELSE [self |-> [self EXCEPT ![e.name] = None], done |-> FALSE, value |-> self[e.name][1]]

take_unwrap_or_default(self, e) ==
    [self |-> [self EXCEPT ![e.name] = None], done |-> FALSE,
     value |-> IF self[e.name] = None THEN <<>> ELSE self[e.name][1]]

\* a Plain field defaulted like a Vec one instead of required
take_ok_or_else_defaulted(self, e) ==
    [self |-> [self EXCEPT ![e.name] = None], done |-> FALSE,
     value |-> IF self[e.name] = None THEN <<>> ELSE self[e.name][1]]

take_ok_or_else(self, e) ==
    IF self[e.name] = None
    THEN [self |-> [self EXCEPT ![e.name] = None], done |-> TRUE, value |-> NotSet(e.name_str)]
    ELSE [self |-> [self EXCEPT ![e.name] = None], done |-> FALSE, value |-> self[e.name][1]]

initialiser(self, e) ==
    IF e.expr = "clone" THEN clone(self, e)
    ELSE IF e.expr = "take_unwrap_or_default" THEN take_unwrap_or_default(self, e)
    ELSE take_ok_or_else(self, e)

\* pub fn build(&mut self) -> Result<Struct, Box<dyn Error>>: the initialisers run
\* in the order written, each on the builder the previous one left.
\* [self, ret]: the builder afterwards and the value returned.
RECURSIVE build_from(_, _, _, _)
build_from(body, k, self, record) ==
    IF k > Len(body) THEN [self |-> self, ret |-> Ok(record)]
    ELSE LET r == initialiser(self, body[k])
         IN  IF r.done THEN [self |-> r.self, ret |-> Err(r.value)]
             ELSE build_from(body, k + 1, r.self, record @@ (body[k].name :> r.value))

build(b, self) == build_from(b.build, 1, self, <<>>)

(***************************************************************************)
(* The inputs.  Field i is named FieldIdents[i]; an each annotation on it  *)
(* names EachIdents[i]; attribute j of field i has span <<i, j>>.          *)
(***************************************************************************)
FieldIdents == <<"f1", "f2", "f3", "f4">>
EachIdents == <<"e1", "e2", "e3", "e4">>

\* /// a doc comment
DocAttr(i, j) == MetaNameValue("doc", <<i, j>>)
\* #[builder(each = "e")]
EachAttr(i, j) == MetaList("builder", Tokens("each", "LitStr", EachIdents[i]), <<i, j>>)
\* #[builder(eac = "e")]
EacAttr(i, j) == MetaList("builder", Tokens("eac", "LitStr", EachIdents[i]), <<i, j>>)
\* #[builder(each = e)]
UnquotedAttr(i, j) == MetaList("builder", Tokens("each", "Ident", EachIdents[i]), <<i, j>>)

AttrAt(kind, i, j) ==
    CASE kind = "doc" -> DocAttr(i, j)
      [] kind = "each" -> EachAttr(i, j)
      [] kind = "eac" -> EacAttr(i, j)
      [] kind = "unquoted" -> UnquotedAttr(i, j)

\* the attribute lists a field is given
AttrLists ==
    {<<>>, <<"doc">>, <<"each">>, <<"eac">>, <<"unquoted">>,
     <<"doc", "each">>, <<"doc", "eac">>, <<"each", "eac">>}

\* the types a field is given
Types ==
    {TString, TOption(TString), TVec(TString), TOption(TypeReference), TVec(TypeReference),
     TBareOption, TBareVec, TQualifiedOption, TOption(TVec(TString))}

FieldAt(shape, i) ==
    Field(FieldIdents[i], shape.ty,
          [j \in 1..Len(shape.attrs) |-> AttrAt(shape.attrs[j], i, j)])

StructOf(shapes) ==
    DeriveInput("S", "StructNamed", [i \in 1..Len(shapes) |-> FieldAt(shapes[i], i)])

SeqsUpTo(S, n) == UNION {[1..k -> S] : k \in 0..n}

\* what the macro can be handed
Inputs ==
    {StructOf(s) : s \in SeqsUpTo([ty : Types, attrs : AttrLists], MaxFields)}
    \cup {DeriveInput("S", d, <<>>) : d \in {"StructUnnamed", "StructUnit", "Enum", "Union"}}

\* structs whose builder is used below
BuilderShapes ==
    [ty : {TString, TOption(TString), TVec(TString)}, attrs : {<<>>}]
    \cup [ty : {TVec(TString)}, attrs : {<<"each">>}]

BuilderInputs == {StructOf(s) : s \in SeqsUpTo(BuilderShapes, MaxFields)}

\* structs of a String field and of Vec fields that carry an each annotation,
\* alone or after a doc comment
EachShapes ==
    [ty : {TString}, attrs : {<<>>}]
    \cup [ty : {TVec(TString)}, attrs : {<<"each">>, <<"doc", "each">>}]

EachInputs == {StructOf(s) : s \in SeqsUpTo(EachShapes, MaxFields)}

\* the values of a type
Elems == 1..MaxVal
\* a Vec argument is the empty vector or a vector of one element
ValuesOf(ty) ==
    IF is_a("Vec", ty) THEN {<<>>, <<MaxVal>>} ELSE Elems

(***************************************************************************)
(* Macro expansion alone, over every input.                                *)
(***************************************************************************)
InitDerive ==
    /\ input \in Inputs
    /\ out = Pending
    /\ storage = <<>>
    /\ trace = <<>>

Derive ==
    /\ out.kind = "Pending"
    /\ out' = derive(input)
    /\ UNCHANGED <<input, storage, trace>>

NextDerive == Derive

SpecDerive == InitDerive /\ [][NextDerive]_vars

(***************************************************************************)
(* Macro expansion over the structs whose field types are String,          *)
(* Option<String> or Vec<String>, with every attribute list: the           *)
(* annotations alone decide the outcome.                                   *)
(***************************************************************************)
AnnotatedInputs ==
    {StructOf(s) : s \in SeqsUpTo([ty : {TString, TOption(TString), TVec(TString)},
                                   attrs : AttrLists], MaxFields)}

InitAnnotated ==
    /\ input \in AnnotatedInputs
    /\ out = Pending
    /\ storage = <<>>
    /\ trace = <<>>

SpecAnnotated == InitAnnotated /\ [][NextDerive]_vars

(***************************************************************************)
(* The generated builder in use: the macro has run, builder() has made a   *)
(* fresh builder, and setters and build are called on it.                  *)
(***************************************************************************)
Init ==
    /\ input \in BuilderInputs
    /\ out = derive(input)
    /\ out.kind = "Tokens"
    /\ storage = builder(out.builder)
    /\ trace = <<>>

Call(method, body, field, arg, ret) ==
    [method |-> method, body |-> body, field |-> field, arg |-> arg, ret |-> ret]
Self == [kind |-> "Self", value |-> <<>>]

Setter ==
    /\ Len(trace) < MaxCalls
    /\ \E m \in 1..Len(out.builder.setters) :
         LET method == out.builder.setters[m]
         IN  \E arg \in ValuesOf(method.arg_ty) :
               /\ storage' = setter(storage, method, arg)
               /\ trace' = Append(trace, Call(method.name, method.body, method.field,
                                              Some(arg), Self))
    /\ UNCHANGED <<input, out>>

Build ==
    /\ Len(trace) < MaxCalls
    /\ LET r == build(out.builder, storage)
       IN  /\ storage' = r.self
           /\ trace' = Append(trace, Call("build", "build", "", None, r.ret))
    /\ UNCHANGED <<input, out>>

Next == Setter \/ Build

Spec == Init /\ [][Next]_vars

\* the same, for the structs with each annotations
InitEach ==
    /\ input \in EachInputs
    /\ out = derive(input)
    /\ out.kind = "Tokens"
    /\ storage = builder(out.builder)
    /\ trace = <<>>

SpecEach == InitEach /\ [][Next]_vars

(***************************************************************************)
(* The vocabulary of the properties: what the specification calls a        *)
(* field's shape, and what it calls an annotation.                         *)
(***************************************************************************)
Fields == input.fields
NFields == Len(input.fields)
Ran == out.kind # "Pending" /\ input.data = "StructNamed"

OuterSegment(ty) == ty.segments[Len(ty.segments)]
HasOneArgument(ty) ==
    /\ ty.kind = "Path"
    /\ Len(ty.segments) > 0
    /\ Len(OuterSegment(ty).arguments.args) = 1
    /\ OuterSegment(ty).arguments.args[1].kind = "Type"

\* Optional(inner), Sequence(inner) or Plain(type)
Shape(ty) ==
    IF HasOneArgument(ty) /\ OuterSegment(ty).ident = "Option"
    THEN [shape |-> "Optional", inner |-> OuterSegment(ty).arguments.args[1].ty]
    ELSE IF HasOneArgument(ty) /\ OuterSegment(ty).ident = "Vec"
    THEN [shape |-> "Sequence", inner |-> OuterSegment(ty).arguments.args[1].ty]
    ELSE [shape |-> "Plain", inner |-> ty]

ShapeOf(i) == Shape(Fields[i].ty).shape
IsPlain(i) == ShapeOf(i) = "Plain"
IsOptional(i) == ShapeOf(i) = "Optional"
IsSequence(i) == ShapeOf(i) = "Sequence"
NameOf(i) == Fields[i].ident

IsAnnotation(a) == a.meta = "List" /\ a.path = "builder"
ValidEach(a) == IsAnnotation(a) /\ a.tokens.value_kind = "LitStr" /\ a.tokens.key = "each"
Malformed(a) == IsAnnotation(a) /\ a.tokens.value_kind # "LitStr"
OtherKey(a) == IsAnnotation(a) /\ a.tokens.value_kind = "LitStr" /\ a.tokens.key # "each"

CarriesEach(i) == \E j \in 1..Len(Fields[i].attrs) : ValidEach(Fields[i].attrs[j])
CarriesMalformed(i) == \E j \in 1..Len(Fields[i].attrs) : Malformed(Fields[i].attrs[j])
CarriesOtherKey(i) == \E j \in 1..Len(Fields[i].attrs) : OtherKey(Fields[i].attrs[j])
EachNameOf(i) ==
    Fields[i].attrs[CHOOSE j \in 1..Len(Fields[i].attrs) : ValidEach(Fields[i].attrs[j])]
        .tokens.value

\* the errors reported for field i, and the setters generated for it
ErrorsOf(i) == {k \in 1..Len(out.errors) : out.errors[k].span[1] = i}
SettersOf(i) ==
    {out.builder.setters[m] : m \in {k \in 1..Len(out.builder.setters) :
                                        out.builder.setters[k].field = NameOf(i)}}

\* the calls before the last one, and what they did to a field
Last == trace[Len(trace)]
Before == SubSeq(trace, 1, Len(trace) - 1)
IsBuild(c) == c.body = "build"
LastIsBuild == Len(trace) > 0 /\ IsBuild(Last)
FirstBuild == LastIsBuild /\ \A k \in 1..(Len(trace) - 1) : ~IsBuild(trace[k])
CallsOn(calls, name) == {k \in 1..Len(calls) : calls[k].field = name}
Assigned(calls, name) == CallsOn(calls, name) # {}
Max(S) == CHOOSE x \in S : \A y \in S : y <= x
Min(S) == CHOOSE x \in S : \A y \in S : x <= y
LastValue(calls, name) == calls[Max(CallsOn(calls, name))].arg[1]
RECURSIVE ArgsOf(_, _)
ArgsOf(calls, name) ==
    IF calls = <<>> THEN <<>>
    ELSE (IF Head(calls).field = name THEN Head(calls).arg ELSE <<>>)
         \o ArgsOf(Tail(calls), name)

\* a step that is a call of build
BuildStep == Len(trace') = Len(trace) + 1 /\ IsBuild(trace'[Len(trace')])
\* a step that is a call of a bulk setter
AssignStep == Len(trace') = Len(trace) + 1 /\ trace'[Len(trace')].body = "assign"

(***************************************************************************)
(* The properties of the generated builder, checked under Spec.            *)
(***************************************************************************)
Unassigned == {i \in 1..NFields : IsPlain(i) /\ ~Assigned(Before, NameOf(i))}

\* C1: the first build on a fresh builder succeeds exactly when every Plain field
\* has been assigned by a setter call, and then returns each Plain field's last
\* assigned value; otherwise it fails with the one error "Field '<name>' is not
\* set" naming the first unassigned Plain field in declaration order.
C1_BuildNeedsEveryPlainField ==
    FirstBuild =>
        IF Unassigned = {}
        THEN /\ Last.ret.kind = "Ok"
             /\ \A i \in 1..NFields :
                  IsPlain(i) => Last.ret.value[NameOf(i)] = LastValue(Before, NameOf(i))
        ELSE /\ Last.ret.kind = "Err"
             /\ Last.ret.value = <<"Field '", NameOf(Min(Unassigned)), "' is not set">>

\* the Command scenario: the Plain field never set, the element setter called
\* twice, and build fails
C1_Witness ==
    /\ Len(trace) = 3
    /\ trace[1].body = "push"
    /\ trace[2].body = "push"
    /\ FirstBuild
    /\ Last.ret.kind = "Err"

\* C2: a Vec field carrying a valid each = "name" annotation gets the
\* element-append setter `name` and no bulk setter, and the first build yields
\* for it the values passed to `name`, in call order.
C2_EachSetterAppendsInOrder ==
    \A i \in 1..NFields :
        IsSequence(i) /\ CarriesEach(i) =>
            /\ \E s \in SettersOf(i) : s.name = EachNameOf(i) /\ s.body = "push"
            /\ ~\E s \in SettersOf(i) : s.body = "assign"
            /\ (FirstBuild /\ Last.ret.kind = "Ok" =>
                    Last.ret.value[NameOf(i)] = ArgsOf(Before, NameOf(i)))

\* C5: Optional and Sequence fields never make build fail: an error names a Plain
\* field, and a struct without Plain fields always builds.  The record holds
\* None for an Optional field never assigned and Some(v) for one last assigned
\* v, and the empty sequence for a Sequence field never assigned.  The builder
\* stores an Optional field as Option<T>, not Option<Option<T>>.
C5_OptionalAndSequenceNeverFail ==
    /\ \A i \in 1..NFields :
         IsOptional(i) => out.builder.fields[i].ty = TOption(Shape(Fields[i].ty).inner)
    /\ LastIsBuild =>
         /\ Last.ret.kind = "Err" =>
              \E i \in 1..NFields :
                 IsPlain(i) /\ Last.ret.value = <<"Field '", NameOf(i), "' is not set">>
         /\ (\A i \in 1..NFields : ~IsPlain(i)) => Last.ret.kind = "Ok"
         /\ Last.ret.kind = "Ok" =>
              \A i \in 1..NFields :
                 /\ IsOptional(i) =>
                      Last.ret.value[NameOf(i)] =
                          IF Assigned(Before, NameOf(i))
                          THEN Some(LastValue(Before, NameOf(i)))
                          ELSE None
                 /\ IsSequence(i) /\ ~Assigned(Before, NameOf(i)) =>
                      Last.ret.value[NameOf(i)] = <<>>

\* a build that succeeds with an Optional field assigned and a Sequence field
\* never assigned
C5_Witness ==
    /\ LastIsBuild
    /\ Last.ret.kind = "Ok"
    /\ \E i \in 1..NFields : IsOptional(i) /\ Assigned(Before, NameOf(i))
    /\ \E i \in 1..NFields : IsSequence(i) /\ ~Assigned(Before, NameOf(i))

BulkSetters == {m \in 1..Len(out.builder.setters) : out.builder.setters[m].body = "assign"}

C7_Step ==
    AssignStep =>
        LET c == trace'[Len(trace')]
        IN  /\ storage'[c.field] = Some(c.arg[1])
            /\ \A n \in (DOMAIN storage) \ {c.field} : storage'[n] = storage[n]

C7_LastWrite ==
    (/\ Len(trace) >= 2
     /\ Last.body = "assign"
     /\ Before[Len(Before)].body = "assign"
     /\ Before[Len(Before)].field = Last.field)
    => storage[Last.field] = Some(Last.arg[1])

C7_Commute ==
    \A m1 \in BulkSetters, m2 \in BulkSetters :
        LET s1 == out.builder.setters[m1]
            s2 == out.builder.setters[m2]
        IN  m1 < m2 /\ s1.field # s2.field =>
                \A a \in ValuesOf(s1.arg_ty), b \in ValuesOf(s2.arg_ty) :
                    setter(setter(storage, s1, a), s2, b)
                        = setter(setter(storage, s2, b), s1, a)

\* C7: a bulk setter leaves its own field's storage holding the value passed (so
\* after a then b it holds b) and every other field's storage unchanged, and
\* bulk setters of different fields give the same builder in either order.
C7_BulkSettersLastWriteWins == [][C7_Step]_vars /\ [](C7_LastWrite /\ C7_Commute)

\* a then b on one field of a two-field builder whose other field is set
C7_Witness ==
    /\ Len(trace) = 3
    /\ trace[1].body = "assign"
    /\ trace[2].body = "assign"
    /\ trace[3].body = "assign"
    /\ trace[1].field # trace[2].field
    /\ trace[2].field = trace[3].field
    /\ trace[2].arg # trace[3].arg
    /\ storage[trace[3].field] = trace[3].arg
    /\ storage[trace[1].field] = trace[1].arg

\* C9: build changes the builder's storage only by taking the Sequence and Plain
\* values that go into the record it returns: a build that fails leaves every
\* field's storage as it was.
C9_FailedBuildLeavesStorage ==
    [][BuildStep =>
        IF trace'[Len(trace')].ret.kind = "Err"
        THEN storage' = storage
        ELSE \A i \in 1..NFields :
                \/ storage'[NameOf(i)] = storage[NameOf(i)]
                \/ ~IsOptional(i) /\ storage'[NameOf(i)] = None]_vars

C10_Step ==
    BuildStep /\ trace'[Len(trace')].ret.kind = "Ok" =>
        \A i \in 1..NFields :
            IF IsOptional(i)
            THEN storage'[NameOf(i)] = storage[NameOf(i)]
            ELSE storage'[NameOf(i)] = None

C10_SecondBuild ==
    (/\ Len(trace) >= 2
     /\ IsBuild(Last)
     /\ IsBuild(Before[Len(Before)])
     /\ Before[Len(Before)].ret.kind = "Ok")
    => LET first == Before[Len(Before)].ret.value
           plain == {i \in 1..NFields : IsPlain(i)}
       IN  IF plain # {}
           THEN /\ Last.ret.kind = "Err"
                /\ Last.ret.value = <<"Field '", NameOf(Min(plain)), "' is not set">>
           ELSE /\ Last.ret.kind = "Ok"
                /\ \A i \in 1..NFields :
                     IF IsOptional(i)
                     THEN Last.ret.value[NameOf(i)] = first[NameOf(i)]
                     ELSE Last.ret.value[NameOf(i)] = <<>>

\* C10: a build that succeeds leaves every Optional field's storage as it was
\* and every Sequence and Plain field's storage absent; a second build right
\* after it fails on the first Plain field if there is one, and otherwise
\* returns the same Optional values and empty sequences.
C10_SuccessfulBuildConsumes == [][C10_Step]_vars /\ []C10_SecondBuild

\* an Optional and a Plain field both set, a build that succeeds, and a second
\* build that fails while the Optional storage is still there
C10_Witness ==
    /\ Len(trace) >= 2
    /\ IsBuild(Last)
    /\ IsBuild(Before[Len(Before)])
    /\ Before[Len(Before)].ret.kind = "Ok"
    /\ Last.ret.kind = "Err"
    /\ \E i \in 1..NFields : IsOptional(i)

(***************************************************************************)
(* The properties of the expansion, checked under SpecDerive.              *)
(***************************************************************************)
BadSequenceFields ==
    {i \in 1..NFields : IsSequence(i) /\ (CarriesMalformed(i) \/ CarriesOtherKey(i))}

\* C3: one expansion reports every malformed or unrecognised-key annotation on a
\* Sequence field: one error with the fixed message per such field, in field
\* order, and then no builder; when there is none the output is the builder
\* and no errors.
C3_EveryBadAnnotationReported ==
    Ran =>
        IF BadSequenceFields # {}
        THEN /\ out.kind = "Errors"
             /\ Len(out.errors) = Cardinality(BadSequenceFields)
             /\ {out.errors[k].span[1] : k \in 1..Len(out.errors)} = BadSequenceFields
             /\ \A k \in 1..Len(out.errors) :
                  /\ out.errors[k].message = "expected builder(each = \"...\")"
                  /\ \A l \in 1..(k - 1) : out.errors[l].span[1] < out.errors[k].span[1]
        ELSE out.kind = "Tokens" /\ out.errors = <<>>

\* C4: an annotation whose key is not `each` is an error on a field of any shape,
\* and an `each` annotation on an Optional or Plain field is an error.
C4_OnlyEachOnSequence ==
    Ran =>
        \A i \in 1..NFields :
            (CarriesOtherKey(i) \/ (CarriesEach(i) /\ ~IsSequence(i)))
                => out.kind = "Errors" /\ ErrorsOf(i) # {}

\* the shape the generated code treats field i as, read off its build
\* initialiser and its setter
UsedShape(i) ==
    LET e == out.builder.build[i]
        s == out.builder.setters[i]
    IN  IF e.expr = "clone" THEN [shape |-> "Optional", inner |-> s.arg_ty]
        ELSE IF e.expr = "take_unwrap_or_default"
        THEN [shape |-> "Sequence",
              inner |-> IF s.body = "push" THEN s.arg_ty ELSE Shape(s.arg_ty).inner]
        ELSE [shape |-> "Plain", inner |-> s.arg_ty]

\* C6: classification is total: no field type makes the expansion abort, and
\* the shape the expansion uses is Optional(inner) exactly for `Option` with
\* one generic argument, Sequence(inner) exactly for `Vec` with one generic
\* argument, Plain(type) otherwise, inner being that argument unchanged.
C6_ClassificationTotal ==
    Ran =>
        /\ out.kind # "Panic"
        /\ out.kind = "Tokens" =>
             \A i \in 1..NFields : UsedShape(i) = Shape(Fields[i].ty)

EachOffSequence(i) == CarriesEach(i) /\ ~IsSequence(i)

\* C8 as stated: a well-formed each = "name" on a field that is not a Sequence
\* gives no error, no element-append setter `name`, and no setter at all.
C8_NoSetterAtAll ==
    Ran =>
        \A i \in 1..NFields :
            EachOffSequence(i) =>
                /\ ErrorsOf(i) = {}
                /\ out.kind = "Tokens" => SettersOf(i) = {}

\* C8, amended: a well-formed each = "name" on a field that is not a Sequence
\* gives no error for that field and no element-append setter `name`; when the
\* builder is produced, the field has exactly its ordinary bulk setter, named
\* after the field and storing Some(value).
C8_BulkSetterInstead ==
    Ran =>
        \A i \in 1..NFields :
            EachOffSequence(i) =>
                /\ ErrorsOf(i) = {}
                /\ ~\E m \in 1..Len(out.builder.setters) :
                      /\ out.builder.setters[m].name = EachNameOf(i)
                      /\ out.builder.setters[m].body = "push"
                /\ out.kind = "Tokens" =>
                     /\ Cardinality(SettersOf(i)) = 1
                     /\ \A s \in SettersOf(i) : s.name = NameOf(i) /\ s.body = "assign"

\* a String field annotated each = "e1" whose builder has the bulk setter f1
C8_Witness ==
    /\ Ran
    /\ out.kind = "Tokens"
    /\ \E i \in 1..NFields :
         /\ EachOffSequence(i)
         /\ IsPlain(i)
         /\ \E s \in SettersOf(i) : s.name = NameOf(i) /\ s.body = "assign"

====
